---- MODULE Spec2Model ----
(***************************************************************************)
(* A state-machine model of the resynth texture synthesis engine           *)
(* (src/src/resynth_c/engine.h) and of its C API (src/src/resynth_c/       *)
(* resynth.c).                                                             *)
(*                                                                         *)
(* C arrays are functions over 0..n-1, stretchy buffers are sequences      *)
(* (C index k is element k+1, a NULL buffer is << >>), images are indexed  *)
(* by y * width + x as image_at does, and a pixel is the sequence of its   *)
(* input_bytes channel values.                                             *)
(***************************************************************************)
EXTENDS Integers, Sequences, FiniteSets, TLC

VARIABLES
    state,        \* the Resynth_state arena
    parameters,   \* the Parameters record
    pcg,          \* the process-wide generator: seed and draws since seeding
    result,       \* the Resynth_result of the last resynth_run
    frame,        \* position inside resynth_run: pc, loop variables i and j, local random
    qsort_ties,   \* how the C library's qsort orders equal keys
    nan_to_int,   \* what the build's (int) conversion makes of a NaN
    last_call,    \* the last parameter setter called, with its argument
    runs_left,    \* how many more times the client calls resynth_run
    first_run,    \* inputs and output of the first completed run
    tape          \* generator outputs since seeding, per seed (replayed runs)

vars == <<state, parameters, pcg, result, frame, qsort_ties, nan_to_int, last_call,
          runs_left, first_run, tape>>

----------------------------------------------------------------------------
(* Bounds of the model *)

MaxCorpusArea == 2

MaxDataArea == 4

(* the largest output of the runs of resynth__init alone *)
MaxPlanArea == 5

(* the longest side of a corpus in the runs that build the tables *)
MaxOffsetSide == 3

(* fractional bits of the fixed-point logarithm *)
LogFracBits == 12

(* Program constants *)

INT_MAX == 2147483647

----------------------------------------------------------------------------
(* Generic boilerplate: engine.h 56-59 *)

MIN(a, b) == IF a < b THEN a ELSE b

MAX(a, b) == IF a > b THEN a ELSE b

CLAMP(x, l, u) == MIN(MAX(x, l), u)

Coord(x, y) == [x |-> x, y |-> y]

coord_add(a, b) == Coord(a.x + b.x, a.y + b.y)

coord_sub(a, b) == Coord(a.x - b.x, a.y - b.y)

(* coord_compare ordering by |x| + |y| *)
coord_compare_taxicab(a, b) ==
    LET abs(v) == IF v < 0 THEN -v ELSE v
    IN  (abs(a.x) + abs(a.y)) - (abs(b.x) + abs(b.y))

coord_compare(a, b) == (a.x * a.x + a.y * a.y) - (b.x * b.x + b.y * b.y)

Image(w, h, d) == [width |-> w, height |-> h, depth |-> d]

image_at(image, x, y) == y * image.width + x

image_atc(image, coord) == image_at(image, coord.x, coord.y)

(* calloc: n zeroed elements, NULL (the empty function) when n is not positive *)
MEMORY(n, zero) == [k \in 0 .. (n - 1) |-> zero]

InImage(image, c) ==
    /\ c.x >= 0
    /\ c.y >= 0
    /\ c.x < image.width
    /\ c.y < image.height

(* The coordinates of an image in row-major order: the y loop outside, the x
   loop inside, each coordinate pushed on a stretchy buffer. *)
RowMajor(w, h) == [k \in 1 .. (w * h) |-> Coord((k - 1) % w, (k - 1) \div w)]

----------------------------------------------------------------------------
(* The difference table: engine.h 208-210 and 312-323.

   parameters.autism is a double.  It is held as its rank in the ascending
   list of the doubles the model draws from: 0 is 0.0, AutismTiny stands for
   the positive doubles below 2^-520, and AutismOf(n) is n / AutismUnits for
   n in 1 .. AutismUnits, AutismOne being 1.0.

   For autism = n / 256, x = i / 256.0 / autism is the rational i / n and
   neglog_cauchy(x) = log(x * x + 1) is log((i * i + n * n) / (n * n)).  log is
   computed in fixed point: Log2Fix(n) is log2(n) with LogFracBits fractional
   bits, by the shift-and-square method on a mantissa of 14 fractional bits.
   The table only uses the quotient of two logarithms, so the base does not
   matter.

   For a positive autism below 2^-520, 1.0 / autism and, for i # 0,
   i / 256.0 / autism exceed 2^512 in magnitude, x * x overflows to +infinity,
   both logarithms are +infinity, their quotient is a NaN and value is NaN;
   (int)(value) is then undefined and yields what the build's conversion
   makes of a NaN (nan_to_int).  For i = 0, x is 0, log(1) is 0 and 0 /
   infinity is 0. *)

AutismUnits == 256

AutismTiny == 1

AutismOf(n) == n + AutismTiny

AutismOne == AutismOf(AutismUnits)

(* what (int) of a NaN yields: the "integer indefinite" value INT_MIN of the
   x86 conversion instructions, 0 of the ARM ones *)
NanConversions == {-INT_MAX - 1, 0}

RECURSIVE BitLength(_)
BitLength(n) == IF n <= 1 THEN 0 ELSE 1 + BitLength(n \div 2)

RECURSIVE Pow2(_)
Pow2(e) == IF e <= 0 THEN 1 ELSE 2 * Pow2(e - 1)

Mantissa(n) ==
    LET e == BitLength(n)
    IN  IF e > 14 THEN n \div Pow2(e - 14) ELSE n * Pow2(14 - e)

RECURSIVE Log2Frac(_, _, _)
Log2Frac(m, bits, acc) ==
    IF bits = 0 THEN acc
    ELSE LET sq == (m * m) \div 16384
         IN  IF sq >= 32768
             THEN Log2Frac(sq \div 2, bits - 1, 2 * acc + 1)
             ELSE Log2Frac(sq, bits - 1, 2 * acc)

Log2Fix(n) == BitLength(n) * Pow2(LogFracBits) + Log2Frac(Mantissa(n), LogFracBits, 0)

(* neglog_cauchy of the rational num / den *)
neglog_cauchy(num, den) == Log2Fix(num * num + den * den) - Log2Fix(den * den)

(* (int)(a / b * 65536.0) for 0 <= a <= b, by long division in two steps of
   8 bits to stay inside 32 bits *)
ScaleTo65536(a, b) ==
    LET hi == (a * 256) \div b
        lo == (((a * 256) % b) * 256) \div b
    IN  hi * 256 + lo

diff_value(i, autism, nan) ==
    IF autism > 0
    THEN IF autism = AutismTiny
         THEN (IF i # 0 THEN nan ELSE 0)
         ELSE ScaleTo65536(neglog_cauchy(i, autism - AutismTiny),
                           neglog_cauchy(AutismUnits, autism - AutismTiny))
    ELSE (IF i # 0 THEN 1 ELSE 0) * 65536

diff_table_fill(autism, nan) ==
    [idx \in 0 .. 511 |-> diff_value(idx - 256, autism, nan)]

(* The tables of the autism values the runs use, computed once *)
AutismValues == {0, AutismOf(32)}

KnownTables == [autism \in AutismValues |-> diff_table_fill(autism, 0)]

diff_table_of(autism, nan) ==
    IF autism \in AutismValues THEN KnownTables[autism]
    ELSE diff_table_fill(autism, nan)

----------------------------------------------------------------------------
(* wrap_or_clip: engine.h 170-191.  One axis: add or subtract the length
   while the value is outside, when the axis tiles; fail otherwise. *)

RECURSIVE WrapAxis(_, _, _)
WrapAxis(v, length, tile) ==
    IF v < 0
    THEN IF tile THEN WrapAxis(v + length, length, tile) ELSE [ok |-> FALSE, v |-> v]
    ELSE IF v >= length
         THEN IF tile THEN WrapAxis(v - length, length, tile) ELSE [ok |-> FALSE, v |-> v]
         ELSE [ok |-> TRUE, v |-> v]

wrap_or_clip(params, image, point) ==
    LET wx == WrapAxis(point.x, image.width, params.h_tile)
        wy == WrapAxis(point.y, image.height, params.v_tile)
    IN  IF ~wx.ok THEN [ok |-> FALSE, point |-> point]
        ELSE IF ~wy.ok THEN [ok |-> FALSE, point |-> Coord(wx.v, point.y)]
        ELSE [ok |-> TRUE, point |-> Coord(wx.v, wy.v)]

----------------------------------------------------------------------------
(* make_offset_list: engine.h 212-231.  qsort is an insertion sort by
   coord_compare; the C standard leaves the order of equal keys open, and
   qsort_ties says whether an element goes after ("forward") or before
   ("backward") the equal keys already placed. *)

TieOrders == {"forward", "backward"}

RECURSIVE InsertSorted(_, _, _, _)
InsertSorted(sorted, c, k, ties) ==
    IF k > Len(sorted) THEN Append(sorted, c)
    ELSE LET cmp == coord_compare(c, sorted[k])
         IN  IF cmp < 0 \/ (cmp = 0 /\ ties = "backward")
             THEN SubSeq(sorted, 1, k - 1) \o <<c>> \o SubSeq(sorted, k, Len(sorted))
             ELSE InsertSorted(sorted, c, k + 1, ties)

RECURSIVE qsort(_, _, _)
qsort(base, n, ties) ==
    IF n = 0 THEN << >>
    ELSE InsertSorted(qsort(base, n - 1, ties), base[n], 1, ties)

OffsetGrid(width, height) ==
    [k \in 1 .. ((2 * width - 1) * (2 * height - 1)) |->
        Coord(((k - 1) % (2 * width - 1)) - width + 1,
              ((k - 1) \div (2 * width - 1)) - height + 1)]

make_offset_list(s, ties) ==
    LET width == MIN(s.corpus.width, s.data.width)
        height == MIN(s.corpus.height, s.data.height)
        pushed == OffsetGrid(width, height)
    IN  [s EXCEPT !.sorted_offsets = qsort(pushed, Len(pushed), ties)]


----------------------------------------------------------------------------
(* The generator (rnd.h).  rnd_pcg_nextf yields a float in [0, 1), modelled
   as raw / RndRes, RndRes being large enough for every value of every range
   of the model to be drawn; rnd_pcg_range scales it into [min, max] and draws
   nothing when the range is empty. *)

RndRes == MAX(MAX(MaxCorpusArea, MaxDataArea), MaxPlanArea)

Raw == 0 .. (RndRes - 1)

rnd_pcg_seed(seed) == [seed |-> seed, draws |-> 0]

rnd_pcg_range(raw, min, max) ==
    LET range == (max - min) + 1
    IN  IF range <= 0 THEN min ELSE min + ((raw * range) \div RndRes)

rnd_pcg_advance(g, min, max) ==
    IF (max - min) + 1 <= 0 THEN g ELSE [g EXCEPT !.draws = g.draws + 1]

----------------------------------------------------------------------------
(* try_point: engine.h 233-268 *)

RECURSIVE PixelDiff(_, _, _, _)
PixelDiff(diff_table, data_pixel, corpus_pixel, j) ==
    IF j = 0 THEN 0
    ELSE PixelDiff(diff_table, data_pixel, corpus_pixel, j - 1)
         + diff_table[256 + data_pixel[j] - corpus_pixel[j]]

(* NeighborDiff charging an edge the cost of a zero delta *)
NeighborDiffZeroDelta(s, point, i) ==
    LET off_point == coord_add(point, s.neighbors[i])
    IN  IF ~InImage(s.corpus, off_point)
        THEN s.diff_table[256] * s.input_bytes
        ELSE IF i # 0
             THEN PixelDiff(s.diff_table, s.neighbor_values[i],
                            s.corpus_array[image_atc(s.corpus, off_point)],
                            s.input_bytes)
             ELSE 0

NeighborDiff(s, point, i) ==
    LET off_point == coord_add(point, s.neighbors[i])
    IN  IF ~InImage(s.corpus, off_point)
        THEN s.diff_table[0] * s.input_bytes
        ELSE IF i # 0
             THEN PixelDiff(s.diff_table, s.neighbor_values[i],
                            s.corpus_array[image_atc(s.corpus, off_point)],
                            s.input_bytes)
             ELSE 0

(* __builtin_add_overflow(a, b, &r) on int: true when a + b is above INT_MAX
   or below INT_MIN, decided without leaving 32 bits *)
add_overflow(a, b) ==
    \/ b > 0 /\ a > INT_MAX - b
    \/ b < 0 /\ a < (-INT_MAX - 1) - b

(* TryPointLoop returning early only on a sum above best *)
RECURSIVE TryPointLoopTiesWin(_, _, _, _)
TryPointLoopTiesWin(s, point, i, sum) ==
    IF i >= s.n_neighbors THEN [ret |-> "scored", sum |-> sum]
    ELSE LET diff == NeighborDiff(s, point, i)
         IN  IF add_overflow(sum, diff)
             THEN [ret |-> "overflow", sum |-> sum]
             ELSE IF sum + diff > s.best THEN [ret |-> "worse", sum |-> sum + diff]
             ELSE TryPointLoopTiesWin(s, point, i + 1, sum + diff)

(* The loop over the neighbours: "scored" when it runs to its end, "worse"
   on the early return, "overflow" when the checked addition fails, above
   INT_MAX or below INT_MIN. *)
RECURSIVE TryPointLoop(_, _, _, _)
TryPointLoop(s, point, i, sum) ==
    IF i >= s.n_neighbors THEN [ret |-> "scored", sum |-> sum]
    ELSE LET diff == NeighborDiff(s, point, i)
         IN  IF add_overflow(sum, diff)
             THEN [ret |-> "overflow", sum |-> sum]
             ELSE IF sum + diff >= s.best THEN [ret |-> "worse", sum |-> sum + diff]
             ELSE TryPointLoop(s, point, i + 1, sum + diff)

try_point(s, point) ==
    LET r == TryPointLoop(s, point, 0, 0)
    IN  [s |-> IF r.ret = "scored"
               THEN [s EXCEPT !.best = r.sum, !.best_point = point]
               ELSE s,
         overflow |-> r.ret = "overflow"]

----------------------------------------------------------------------------
(* resynth__init: engine.h 270-353 *)

NoStatus == [has_value |-> FALSE, has_source |-> FALSE, source |-> Coord(0, 0)]

ZeroPixel(d) == [k \in 1 .. d |-> 0]

(* 271-301: free the point lists, allocate the scratch arrays and the status
   grid, list the output and the corpus coordinates *)
resynth__init_alloc(s, params) ==
    [s EXCEPT
        !.sorted_offsets = << >>,
        !.diff_table = MEMORY(512, 0),
        !.neighbors = MEMORY(params.neighbors, Coord(0, 0)),
        !.neighbor_values = MEMORY(params.neighbors, ZeroPixel(s.input_bytes)),
        !.neighbor_statuses = MEMORY(params.neighbors, -1),
        !.status = Image(s.data.width, s.data.height, 1),
        !.status_array = MEMORY(s.data.width * s.data.height, NoStatus),
        !.data_points = RowMajor(s.data.width, s.data.height),
        !.corpus_points = RowMajor(s.corpus.width, s.corpus.height)]

(* 303-308 *)
InvalidSizes(s) == Len(s.corpus_points) = 0 \/ Len(s.data_points) = 0

(* 310-323 *)
resynth__init_tables(s, params, ties, nan) ==
    [make_offset_list(s, ties) EXCEPT !.diff_table = diff_table_of(params.autism, nan)]

(* Swap without the temporary: element i is overwritten and lost *)
SwapNoTemp(points, i, j) ==
    [points EXCEPT ![i + 1] = points[j + 1], ![j + 1] = points[j + 1]]

(* Swap storing points[i] at j and leaving entry i as it was *)
SwapOneWay(points, i, j) ==
    [points EXCEPT ![j + 1] = points[i + 1]]

(* 328-333: one round of the shuffle, j being the generator's draw *)
Swap(points, i, j) ==
    [points EXCEPT ![i + 1] = points[j + 1], ![j + 1] = points[i + 1]]

(* PolishTail rounding n * magic / 256 to the nearest instead of down *)
RECURSIVE PolishTailRounded(_, _, _)
PolishTailRounded(points, n, magic) ==
    IF n > 0
    THEN LET m == (n * magic + 128) \div 256
         IN  IF m >= n THEN points
             ELSE PolishTailRounded(points \o SubSeq(points, 1, m), m, magic)
    ELSE points

(* PolishTail appending the last n data points instead of the first *)
RECURSIVE PolishTailFromEnd(_, _, _)
PolishTailFromEnd(points, n, magic) ==
    IF n > 0
    THEN LET m == (n * magic) \div 256
         IN  PolishTailFromEnd(points \o SubSeq(points, n - m + 1, n), m, magic)
    ELSE points

(* 340-345: the polishing tail *)
RECURSIVE PolishTail(_, _, _)
PolishTail(points, n, magic) ==
    IF n > 0
    THEN LET m == (n * magic) \div 256
         IN  PolishTail(points \o SubSeq(points, 1, m), m, magic)
    ELSE points

(* resynth__init_polish leaving the tried grid zeroed *)
resynth__init_polish_zeroed(s, params) ==
    LET data_area == s.data.width * s.data.height
        points == IF params.magic # 0
                  THEN PolishTail(s.data_points, data_area, params.magic)
                  ELSE s.data_points
    IN  [s EXCEPT
            !.data_points = points,
            !.tried = Image(s.corpus.width, s.corpus.height, 1),
            !.tried_array = MEMORY(s.corpus.width * s.corpus.height, 0)]

resynth__init_polish(s, params) ==
    LET data_area == s.data.width * s.data.height
        points == IF params.magic # 0
                  THEN PolishTail(s.data_points, data_area, params.magic)
                  ELSE s.data_points
    IN  [s EXCEPT
            !.data_points = points,
            !.tried = Image(s.corpus.width, s.corpus.height, 1),
            !.tried_array = MEMORY(s.corpus.width * s.corpus.height, -1)]


----------------------------------------------------------------------------
(* One iteration of the loop of resynth: engine.h 359-420 *)

(* 367-384: walk sorted_offsets from index j.  A write past the end of the
   scratch arrays (to NULL when parameters.neighbors is 0) is a fault. *)
RECURSIVE CollectNeighbors(_, _, _, _)
CollectNeighbors(s, params, position, j) ==
    IF j >= Len(s.sorted_offsets) THEN [s |-> s, fault |-> FALSE]
    ELSE LET off == s.sorted_offsets[j + 1]
             w == wrap_or_clip(params, s.data, coord_add(position, off))
             at == image_atc(s.status, w.point)
         IN  IF w.ok /\ s.status_array[at].has_value
             THEN IF s.n_neighbors \notin DOMAIN s.neighbors
                  THEN [s |-> s, fault |-> TRUE]
                  ELSE LET n == s.n_neighbors
                           s1 == [s EXCEPT
                                    !.neighbors[n] = off,
                                    !.neighbor_statuses[n] = at,
                                    !.neighbor_values[n] =
                                        s.data_array[image_atc(s.data, w.point)],
                                    !.n_neighbors = n + 1]
                       IN  IF s1.n_neighbors >= params.neighbors
                           THEN [s |-> s1, fault |-> FALSE]
                           ELSE CollectNeighbors(s1, params, position, j + 1)
             ELSE CollectNeighbors(s, params, position, j + 1)

(* Coherence without the test of the tried grid *)
RECURSIVE CoherenceRescoring(_, _, _)
CoherenceRescoring(s, i, j) ==
    IF ~(j < s.n_neighbors /\ s.best # 0)
    THEN [s |-> s, overflow |-> FALSE, calls |-> << >>]
    ELSE LET status == s.status_array[s.neighbor_statuses[j]]
             point == coord_sub(status.source, s.neighbors[j])
         IN  IF ~status.has_source THEN CoherenceRescoring(s, i, j + 1)
             ELSE IF ~InImage(s.corpus, point) THEN CoherenceRescoring(s, i, j + 1)
             ELSE LET t == try_point(s, point)
                      rest == CoherenceRescoring(
                                 [t.s EXCEPT !.tried_array[image_atc(s.tried, point)] = i],
                                 i, j + 1)
                  IN  IF t.overflow
                      THEN [s |-> t.s, overflow |-> TRUE, calls |-> <<point>>]
                      ELSE [rest EXCEPT !.calls = <<point>> \o @]

(* 389-403: the candidates the collected neighbours propose, from index j;
   calls lists the points passed to try_point, in order *)
RECURSIVE Coherence(_, _, _)
Coherence(s, i, j) ==
    IF ~(j < s.n_neighbors /\ s.best # 0)
    THEN [s |-> s, overflow |-> FALSE, calls |-> << >>]
    ELSE LET status == s.status_array[s.neighbor_statuses[j]]
             point == coord_sub(status.source, s.neighbors[j])
         IN  IF ~status.has_source THEN Coherence(s, i, j + 1)
             ELSE IF ~InImage(s.corpus, point) THEN Coherence(s, i, j + 1)
             ELSE IF s.tried_array[image_atc(s.tried, point)] = i
                  THEN Coherence(s, i, j + 1)
             ELSE LET t == try_point(s, point)
                      rest == Coherence(
                                 [t.s EXCEPT !.tried_array[image_atc(s.tried, point)] = i],
                                 i, j + 1)
                  IN  IF t.overflow
                      THEN [s |-> t.s, overflow |-> TRUE, calls |-> <<point>>]
                      ELSE [rest EXCEPT !.calls = <<point>> \o @]

(* IterationHead clearing has_source of the position it marks *)
IterationHeadClearsSource(s, params, i) ==
    LET position == s.data_points[i + 1]
        marked == [s EXCEPT
                     !.status_array[image_atc(s.status, position)].has_value = TRUE,
                     !.status_array[image_atc(s.status, position)].has_source = FALSE,
                     !.n_neighbors = 0]
        c == CollectNeighbors(marked, params, position, 0)
        k == Coherence([c.s EXCEPT !.best = INT_MAX], i, 0)
    IN  IF c.fault THEN [s |-> c.s, pc |-> "fault", calls |-> << >>]
        ELSE IF k.overflow THEN [s |-> k.s, pc |-> "overflow", calls |-> k.calls]
        ELSE [s |-> k.s, pc |-> "probe", calls |-> k.calls]

(* 360-403: mark the position, collect its neighbours, score the coherent
   candidates *)
IterationHead(s, params, i) ==
    LET position == s.data_points[i + 1]
        marked == [s EXCEPT
                     !.status_array[image_atc(s.status, position)].has_value = TRUE,
                     !.n_neighbors = 0]
        c == CollectNeighbors(marked, params, position, 0)
        k == Coherence([c.s EXCEPT !.best = INT_MAX], i, 0)
    IN  IF c.fault THEN [s |-> c.s, pc |-> "fault", calls |-> << >>]
        ELSE IF k.overflow THEN [s |-> k.s, pc |-> "overflow", calls |-> k.calls]
        ELSE [s |-> k.s, pc |-> "probe", calls |-> k.calls]

(* Commit recording the source without setting has_source *)
CommitWithoutFlag(s, i) ==
    LET position == s.data_points[i + 1]
        at == image_atc(s.status, position)
    IN  [s EXCEPT
            !.data_array[image_atc(s.data, position)] =
                s.corpus_array[image_atc(s.corpus, s.best_point)],
            !.status_array[at].source = s.best_point]

(* Commit, recording the output position as the source instead of best_point *)
CommitSourceIsPosition(s, i) ==
    LET position == s.data_points[i + 1]
        at == image_atc(s.status, position)
    IN  [s EXCEPT
            !.data_array[image_atc(s.data, position)] =
                s.corpus_array[image_atc(s.corpus, s.best_point)],
            !.status_array[at].has_source = TRUE,
            !.status_array[at].source = position]

(* 413-419: copy the best pixel and record where it came from *)
Commit(s, i) ==
    LET position == s.data_points[i + 1]
        at == image_atc(s.status, position)
    IN  [s EXCEPT
            !.data_array[image_atc(s.data, position)] =
                s.corpus_array[image_atc(s.corpus, s.best_point)],
            !.status_array[at].has_source = TRUE,
            !.status_array[at].source = s.best_point]


----------------------------------------------------------------------------
(* The API: resynth.c *)

disc00 ==
    << 1,    5,    9,    13,   21,   25,   29,   37,
       45,   49,   57,   61,   69,   81,   89,   97,
       101,  109,  113,  121,  129,  137,  145,  149,
       161,  169,  177,  185,  193,  197,  213,  221,
       225,  233,  241,  249,  253,  261,  277,  285,
       293,  301,  305,  317,  325,  333,  341,  349,
       357,  365,  373,  377,  385,  401,  405,  421,
       429,  437,  441,  457,  465,  473,  481,  489,
       497,  505,  509,  517,  529,  545,  553,  561,
       569,  577,  593,  601,  609,  613,  621,  633,
       641,  657,  665,  673,  681,  697,  709,  717,
       725,  733,  741,  749,  757,  761,  769,  777,
       793,  797,  805,  821,  829,  845,  853,  861,
       869,  877,  885,  889,  901,  917,  925,  933,
       941,  949,  965,  973,  981,  989,  997,  1005,
       1009, 1033, 1041, 1049, 1057, 1069, 1085, 1093 >>

(* resynth_state_create_from_memory, 32-53: a zeroed arena holding the corpus
   and a zeroed output of the size the scale asks for *)
resynth_state_create_from_memory(pixels, width, height, channels, scale) ==
    LET data_w == IF scale > 0 THEN scale * width
                  ELSE IF scale < 0 THEN -scale ELSE 256
        data_h == IF scale > 0 THEN scale * height
                  ELSE IF scale < 0 THEN -scale ELSE 256
    IN  [input_bytes |-> channels,
         data |-> Image(data_w, data_h, channels),
         corpus |-> Image(width, height, channels),
         status |-> Image(0, 0, 0),
         data_array |-> MEMORY(data_w * data_h, ZeroPixel(channels)),
         corpus_array |-> pixels,
         status_array |-> << >>,
         data_points |-> << >>,
         corpus_points |-> << >>,
         sorted_offsets |-> << >>,
         tried |-> Image(0, 0, 0),
         tried_array |-> << >>,
         neighbors |-> << >>,
         neighbor_values |-> << >>,
         neighbor_statuses |-> << >>,
         n_neighbors |-> 0,
         diff_table |-> << >>,
         best |-> 0,
         best_point |-> Coord(0, 0)]

(* resynth_parameters_create, 70-81; time(0) is the seed given *)
resynth_parameters_create(seed) ==
    [h_tile |-> FALSE, v_tile |-> FALSE, magic |-> 192, autism |-> AutismOf(32),
     neighbors |-> 29, tries |-> 192, random_seed |-> seed]

Called(fn, arg) == last_call' = [fn |-> fn, arg |-> arg]

SetterFrame ==
    /\ frame.pc = "idle"
    /\ UNCHANGED <<state, pcg, result, frame, qsort_ties, nan_to_int, runs_left, first_run, tape>>

resynth_parameters_h_tile(h_tile) ==
    /\ SetterFrame
    /\ parameters' = [parameters EXCEPT !.h_tile = h_tile]
    /\ Called("h_tile", h_tile)

resynth_parameters_v_tile(v_tile) ==
    /\ SetterFrame
    /\ parameters' = [parameters EXCEPT !.v_tile = v_tile]
    /\ Called("v_tile", v_tile)

resynth_parameters_outlier_sensitivity(sensitivity) ==
    /\ SetterFrame
    /\ parameters' = [parameters EXCEPT !.autism = CLAMP(sensitivity, 0, AutismOne)]
    /\ Called("outlier_sensitivity", sensitivity)

(* the entry before the last of disc00 *)
NeighborsMaxOffByOne == disc00[Len(disc00) - 1]

NeighborsMax == disc00[Len(disc00)]

resynth_parameters_neighbors(neighbors) ==
    /\ SetterFrame
    /\ parameters' = [parameters EXCEPT !.neighbors = CLAMP(neighbors, 0, NeighborsMax)]
    /\ Called("neighbors", neighbors)

TriesMax == 65536

resynth_parameters_tries(tries) ==
    /\ SetterFrame
    /\ parameters' = [parameters EXCEPT !.tries = CLAMP(tries, 0, TriesMax)]
    /\ Called("tries", tries)

MagicMax == 255

resynth_parameters_magic(magic) ==
    /\ SetterFrame
    /\ parameters' = [parameters EXCEPT !.magic = CLAMP(magic, 0, MagicMax)]
    /\ Called("magic", magic)

resynth_parameters_random_seed(seed) ==
    /\ SetterFrame
    /\ parameters' = [parameters EXCEPT !.random_seed = seed]
    /\ Called("random_seed", seed)


----------------------------------------------------------------------------
(* resynth_run: resynth.c 131-147, and resynth, engine.h 355-421, in steps.
   frame.pc is "idle" outside a run, "shuffle" in the shuffle of
   resynth__init, "loop" at the head of the loop of resynth, "probe" in the
   random probes of an iteration; "fault" is a run ended by a memory fault and
   "overflow" one ended by the overflow check of try_point. *)

At(pc, i, j) == [pc |-> pc, i |-> i, j |-> j, random |-> 0]

NoResult == [valid |-> FALSE, width |-> 0, height |-> 0, channels |-> 0]

(* 136-139 and resynth__init up to the shuffle.  With invalid sizes
   resynth__init returns and resynth goes on to its loop. *)
resynth_run_enter ==
    /\ frame.pc = "idle"
    /\ runs_left > 0
    /\ runs_left' = runs_left - 1
    /\ pcg' = rnd_pcg_seed(parameters.random_seed)
    /\ result' = NoResult
    /\ LET a == resynth__init_alloc(state, parameters)
       IN  IF InvalidSizes(a)
           THEN /\ state' = a
                /\ frame' = At("loop", Len(a.data_points) - 1, 0)
           ELSE /\ state' = resynth__init_tables(a, parameters, qsort_ties, nan_to_int)
                /\ frame' = At("shuffle", 0, 0)
    /\ UNCHANGED <<parameters, qsort_ties, nan_to_int, last_call, first_run, tape>>

(* 328-333 *)
shuffle(raw) ==
    LET data_area == state.data.width * state.data.height
    IN  /\ frame.pc = "shuffle"
        /\ frame.i < data_area
        /\ state' = [state EXCEPT
                        !.data_points =
                            Swap(@, frame.i, rnd_pcg_range(raw, 0, data_area - 1))]
        /\ pcg' = rnd_pcg_advance(pcg, 0, data_area - 1)
        /\ frame' = At("shuffle", frame.i + 1, 0)
        /\ UNCHANGED <<parameters, result, qsort_ties, nan_to_int, last_call, runs_left, first_run>>

(* 340-352, and the start of the loop of resynth at the last index *)
polish ==
    /\ frame.pc = "shuffle"
    /\ frame.i >= state.data.width * state.data.height
    /\ state' = resynth__init_polish(state, parameters)
    /\ frame' = At("loop", Len(state'.data_points) - 1, 0)
    /\ UNCHANGED <<parameters, pcg, result, qsort_ties, nan_to_int, last_call, runs_left,
                   first_run, tape>>

(* 360-403 *)
iterate ==
    /\ frame.pc = "loop"
    /\ frame.i >= 0
    /\ LET h == IterationHead(state, parameters, frame.i)
       IN  /\ state' = h.s
           /\ frame' = At(h.pc, frame.i, 0)
    /\ UNCHANGED <<parameters, pcg, result, qsort_ties, nan_to_int, last_call, runs_left,
                   first_run, tape>>

(* 408-411: one random probe.  corpus_points is NULL when the corpus is
   empty, and reading it is a fault. *)
probe(raw) ==
    /\ frame.pc = "probe"
    /\ frame.j < parameters.tries
    /\ state.best # 0
    /\ LET max == Len(state.corpus_points) - 1
           random == rnd_pcg_range(raw, 0, max)
       IN  /\ pcg' = rnd_pcg_advance(pcg, 0, max)
           /\ IF random + 1 \notin DOMAIN state.corpus_points
              THEN /\ state' = state
                   /\ frame' = [At("fault", frame.i, frame.j) EXCEPT !.random = random]
              ELSE LET t == try_point(state, state.corpus_points[random + 1])
                   IN  /\ state' = t.s
                       /\ frame' = [(IF t.overflow
                                      THEN At("overflow", frame.i, frame.j)
                                      ELSE At("probe", frame.i, frame.j + 1))
                                       EXCEPT !.random = random]
    /\ UNCHANGED <<parameters, result, qsort_ties, nan_to_int, last_call, runs_left, first_run>>

(* 413-420, and the loop's step to the next index.  Reading a corpus pixel
   outside corpus_array (NULL when the corpus is empty) is a fault. *)
commit ==
    /\ frame.pc = "probe"
    /\ ~(frame.j < parameters.tries /\ state.best # 0)
    /\ IF state.input_bytes > 0
          /\ image_atc(state.corpus, state.best_point) \notin DOMAIN state.corpus_array
       THEN /\ state' = state
            /\ frame' = At("fault", frame.i, frame.j)
       ELSE /\ state' = Commit(state, frame.i)
            /\ frame' = At("loop", frame.i - 1, 0)
    /\ UNCHANGED <<parameters, pcg, result, qsort_ties, nan_to_int, last_call, runs_left,
                   first_run, tape>>

(* resynth.c 141-146 *)
resynth_run_return ==
    /\ frame.pc = "loop"
    /\ frame.i < 0
    /\ result' = [valid |-> TRUE, width |-> state.data.width,
                  height |-> state.data.height, channels |-> state.data.depth]
    /\ frame' = At("idle", 0, 0)
    /\ first_run' = IF first_run = << >> THEN <<state.data_array>> ELSE first_run
    /\ UNCHANGED <<state, parameters, pcg, qsort_ties, nan_to_int, last_call, runs_left, tape>>

(* The generator's output is a function of the seed and the number of draws:
   a draw the tape holds is replayed, a new one is recorded. *)
shuffle_replayed ==
    IF pcg.draws + 1 <= Len(tape)
    THEN shuffle(tape[pcg.draws + 1]) /\ UNCHANGED tape
    ELSE \E raw \in Raw : shuffle(raw) /\ tape' = Append(tape, raw)

probe_replayed ==
    IF pcg.draws + 1 <= Len(tape)
    THEN probe(tape[pcg.draws + 1]) /\ UNCHANGED tape
    ELSE \E raw \in Raw : probe(raw) /\ tape' = Append(tape, raw)


----------------------------------------------------------------------------
(* Initial states: an arena as resynth_state_create_from_memory leaves it and
   a parameter record as the setters leave it. *)

PixelValues == {0, 255}

Scales == {-1, 1, 2}

Seeds == {1}

GrayPixels(channels) == {[k \in 1 .. channels |-> v] : v \in PixelValues}

CreatedArenas(max_corpus, max_data, channel_counts) ==
    UNION {
        {resynth_state_create_from_memory(pixels, w, h, d, scale) :
            pixels \in [0 .. (w * h - 1) -> GrayPixels(d)]} :
        <<w, h, d, scale>> \in
            {c \in (0 .. max_corpus) \X (0 .. max_corpus) \X channel_counts \X Scales :
                /\ c[1] * c[2] <= max_corpus
                /\ (IF c[4] > 0 THEN c[4] * c[4] * c[1] * c[2] ELSE c[4] * c[4])
                       <= max_data}}

(* The corpora of these bounds are one pixel high or one pixel wide, so the
   offsets lie on one axis and only that axis's flag is ever read: the two
   flags are drawn together. *)
ParameterRecords ==
    {p \in [h_tile : BOOLEAN, v_tile : BOOLEAN, magic : {0, 192},
            autism : AutismValues, neighbors : {0, 1, 3}, tries : {0, 2},
            random_seed : Seeds] : p.h_tile = p.v_tile}

NoCall == [fn |-> "create", arg |-> 0]

Init ==
    /\ state \in CreatedArenas(MaxCorpusArea, MaxDataArea, {1})
    /\ parameters \in ParameterRecords
    /\ pcg = rnd_pcg_seed(0)
    /\ result = NoResult
    /\ frame = At("idle", 0, 0)
    /\ qsort_ties \in TieOrders
    /\ nan_to_int = 0
    /\ last_call = NoCall
    /\ runs_left = 1
    /\ first_run = << >>
    /\ tape = << >>

Next ==
    \/ resynth_run_enter
    \/ \E raw \in Raw : shuffle(raw) /\ UNCHANGED tape
    \/ polish
    \/ iterate
    \/ \E raw \in Raw : probe(raw) /\ UNCHANGED tape
    \/ commit
    \/ resynth_run_return

Spec == Init /\ [][Next]_vars


----------------------------------------------------------------------------
(* The parameter setters alone, called with arguments inside and outside the
   documented domains, on the record resynth_parameters_create returns. *)

NeighborsArgs == {-1, 0, 29, 1092, 1093, 1094, 1105, 1106}

TriesArgs == {-1, 0, 192, 65536, 65537}

MagicArgs == {-1, 0, 128, 255, 256}

SensitivityArgs == {-1, 0, AutismTiny, AutismOf(32), AutismOne, AutismOne + 1}

IdleArena == resynth_state_create_from_memory([k \in 0 .. 0 |-> ZeroPixel(1)], 1, 1, 1, 1)

InitSetters ==
    /\ state = IdleArena
    /\ parameters \in {resynth_parameters_create(seed) : seed \in Seeds}
    /\ pcg = rnd_pcg_seed(0)
    /\ result = NoResult
    /\ frame = At("idle", 0, 0)
    /\ qsort_ties = "forward"
    /\ nan_to_int = 0
    /\ last_call = NoCall
    /\ runs_left = 0
    /\ first_run = << >>
    /\ tape = << >>

NextSetters ==
    \/ \E b \in BOOLEAN : resynth_parameters_h_tile(b)
    \/ \E b \in BOOLEAN : resynth_parameters_v_tile(b)
    \/ \E x \in SensitivityArgs : resynth_parameters_outlier_sensitivity(x)
    \/ \E n \in NeighborsArgs : resynth_parameters_neighbors(n)
    \/ \E n \in TriesArgs : resynth_parameters_tries(n)
    \/ \E n \in MagicArgs : resynth_parameters_magic(n)
    \/ \E n \in Seeds : resynth_parameters_random_seed(n)

SpecSetters == InitSetters /\ [][NextSetters]_vars

----------------------------------------------------------------------------
(* resynth_run called twice on one arena with one parameter record.  The
   second run is seeded like the first, so it replays the first run's draws. *)

DetArenas ==
    {resynth_state_create_from_memory(pixels, 2, 1, 1, 1) :
        pixels \in [0 .. 1 -> GrayPixels(1)]}

DetParameterRecords ==
    [h_tile : {FALSE}, v_tile : {FALSE}, magic : {0}, autism : {0},
     neighbors : {3}, tries : {0, 1}, random_seed : Seeds]

InitDet ==
    /\ state \in DetArenas
    /\ parameters \in DetParameterRecords
    /\ pcg = rnd_pcg_seed(0)
    /\ result = NoResult
    /\ frame = At("idle", 0, 0)
    /\ qsort_ties = "forward"
    /\ nan_to_int = 0
    /\ last_call = NoCall
    /\ runs_left = 2
    /\ first_run = << >>
    /\ tape = << >>

NextDet ==
    \/ resynth_run_enter
    \/ shuffle_replayed
    \/ polish
    \/ iterate
    \/ probe_replayed
    \/ commit
    \/ resynth_run_return

SpecDet == InitDet /\ [][NextDet]_vars

----------------------------------------------------------------------------
(* resynth__init up to its tables, on larger images and on every autism the
   model draws from. *)

TableArenas ==
    {resynth_state_create_from_memory(
        [k \in 0 .. (w * h - 1) |-> ZeroPixel(1)], w, h, 1, scale) :
        w \in 1 .. MaxOffsetSide, h \in 1 .. MaxOffsetSide,
        scale \in (-MaxOffsetSide .. -1) \cup {1, 2}}

InitTables ==
    /\ \/ /\ state \in TableArenas
          /\ parameters = resynth_parameters_create(1)
          /\ qsort_ties \in TieOrders
          /\ nan_to_int = 0
       \/ /\ state = IdleArena
          /\ parameters \in {[resynth_parameters_create(1) EXCEPT !.autism = a] :
                                a \in 0 .. AutismOne}
          /\ qsort_ties = "forward"
          /\ nan_to_int \in NanConversions
    /\ pcg = rnd_pcg_seed(0)
    /\ result = NoResult
    /\ frame = At("idle", 0, 0)
    /\ last_call = NoCall
    /\ runs_left = 1
    /\ first_run = << >>
    /\ tape = << >>

NextTables == resynth_run_enter

SpecTables == InitTables /\ [][NextTables]_vars

----------------------------------------------------------------------------
(* resynth_run at the ends of the autism range: 1.0, and a positive value
   below 2^-520, with either conversion of a NaN. *)

AutismArenas ==
    {resynth_state_create_from_memory(pixels, 3, 1, 1, 1) :
        pixels \in [0 .. 2 -> GrayPixels(1)]}

AutismParameterRecords ==
    {p \in [h_tile : BOOLEAN, v_tile : BOOLEAN, magic : {0},
            autism : {AutismTiny, AutismOne}, neighbors : {3, 5}, tries : {1},
            random_seed : Seeds] : p.h_tile = p.v_tile}

InitAutism ==
    /\ state \in AutismArenas
    /\ parameters \in AutismParameterRecords
    /\ pcg = rnd_pcg_seed(0)
    /\ result = NoResult
    /\ frame = At("idle", 0, 0)
    /\ qsort_ties = "forward"
    /\ nan_to_int \in NanConversions
    /\ last_call = NoCall
    /\ runs_left = 1
    /\ first_run = << >>
    /\ tape = << >>

NextAutism ==
    \/ resynth_run_enter
    \/ \E raw \in Raw : shuffle(raw) /\ UNCHANGED tape
    \/ polish
    \/ iterate
    \/ \E raw \in Raw : probe(raw) /\ UNCHANGED tape
    \/ commit
    \/ resynth_run_return

SpecAutism == InitAutism /\ [][NextAutism]_vars

----------------------------------------------------------------------------
(* resynth__init alone, on outputs of more pixels and more values of magic. *)

PlanMagics == {0, 1, 64, 128, 192, 255}

PlanArenas ==
    {resynth_state_create_from_memory(
        [k \in 0 .. (d[1] * d[2] - 1) |-> ZeroPixel(1)], d[1], d[2], 1, 1) :
        d \in {c \in (1 .. MaxPlanArea) \X (1 .. MaxPlanArea) : c[1] * c[2] <= MaxPlanArea}}

InitPlan ==
    /\ state \in PlanArenas
    /\ parameters \in {[resynth_parameters_create(1) EXCEPT !.magic = m] :
                          m \in PlanMagics}
    /\ pcg = rnd_pcg_seed(0)
    /\ result = NoResult
    /\ frame = At("idle", 0, 0)
    /\ qsort_ties = "forward"
    /\ nan_to_int = 0
    /\ last_call = NoCall
    /\ runs_left = 1
    /\ first_run = << >>
    /\ tape = << >>

NextPlan ==
    \/ resynth_run_enter
    \/ \E raw \in Raw : shuffle(raw) /\ UNCHANGED tape
    \/ polish

SpecPlan == InitPlan /\ [][NextPlan]_vars


----------------------------------------------------------------------------
(* Properties *)

Area(image) == image.width * image.height

NonEmpty == Area(state.corpus) > 0 /\ Area(state.data) > 0

RunCompleted == frame.pc = "idle" /\ result.valid

(* C1: after a completed run on a non-empty corpus and a non-empty output,
   the source recorded for every output position lies inside the corpus and
   the output pixel equals the corpus pixel at that source. *)
C1_OutputFromCorpus ==
    (RunCompleted /\ NonEmpty) =>
        \A p \in DOMAIN state.data_array :
            /\ p \in DOMAIN state.status_array
            /\ InImage(state.corpus, state.status_array[p].source)
            /\ state.data_array[p] =
                   state.corpus_array[image_atc(state.corpus, state.status_array[p].source)]

(* a run without random probes and without polishing that copied a non-zero
   pixel from a corpus position other than the origin *)
C1_Witness ==
    /\ RunCompleted
    /\ NonEmpty
    /\ parameters.tries = 0
    /\ parameters.magic = 0
    /\ \E p \in DOMAIN state.data_array :
          /\ state.status_array[p].source # Coord(0, 0)
          /\ state.data_array[p] # ZeroPixel(state.input_bytes)

(* C2: after a completed run on a non-empty corpus and a non-empty output,
   every output position has has_value and has_source set. *)
C2_SourceCoverage ==
    (RunCompleted /\ NonEmpty) =>
        /\ DOMAIN state.status_array = 0 .. (Area(state.data) - 1)
        /\ \A p \in DOMAIN state.status_array :
              state.status_array[p].has_value /\ state.status_array[p].has_source

(* a completed run with polishing on four output pixels whose shuffle moved
   the first coordinate *)
C2_Witness ==
    /\ RunCompleted
    /\ Area(state.data) = 4
    /\ Area(state.corpus) > 0
    /\ parameters.magic # 0
    /\ state.data_points[1] # Coord(0, 0)
    /\ \A p \in DOMAIN state.status_array : state.status_array[p].has_source

(* C5: with an empty corpus or an empty output no iteration of the loop of
   resynth runs: no probe is drawn, no status cell is marked, the output
   buffer stays zeroed and the run does not fault. *)
C5_NoIterationOnInvalidSizes ==
    (~NonEmpty) =>
        /\ frame.pc \in {"idle", "loop"}
        /\ pcg.draws = 0
        /\ \A p \in DOMAIN state.status_array :
              ~state.status_array[p].has_value /\ ~state.status_array[p].has_source
        /\ \A p \in DOMAIN state.data_array :
              state.data_array[p] = ZeroPixel(state.input_bytes)


(* C3: two runs of resynth_run with equal corpus, output size and parameter
   record give equal output buffers, whatever the arena held before the run:
   the second run on an arena ends with the output of the first. *)
C3_SecondRunRepeatsFirst ==
    (RunCompleted /\ runs_left = 0 /\ first_run # << >>) =>
        state.data_array = first_run[1]

(* The value a setter must store: x brought into [l, u] *)
InDomain(x, l, u) == IF x < l THEN l ELSE IF x > u THEN u ELSE x

SetterStores(fn, field, l, u) ==
    last_call.fn = fn => parameters[field] = InDomain(last_call.arg, l, u)

(* C4 as stated: neighbors is stored clamped into [0, 1105], tries into
   [0, 65536], magic into [0, 255], outlier sensitivity into [0, 1]. *)
C4_SettersClampTo1105 ==
    /\ SetterStores("neighbors", "neighbors", 0, 1105)
    /\ SetterStores("tries", "tries", 0, 65536)
    /\ SetterStores("magic", "magic", 0, 255)
    /\ SetterStores("outlier_sensitivity", "autism", 0, AutismOne)

(* C4 amended: neighbors is stored clamped into [0, 1093], 1093 being the
   last entry of disc00; tries into [0, 65536], magic into [0, 255], outlier
   sensitivity into [0, 1]; a value inside its domain is
   stored unchanged. *)
C4_SettersClamp ==
    /\ SetterStores("neighbors", "neighbors", 0, 1093)
    /\ SetterStores("tries", "tries", 0, 65536)
    /\ SetterStores("magic", "magic", 0, 255)
    /\ SetterStores("outlier_sensitivity", "autism", 0, AutismOne)

(* resynth_parameters_neighbors called with a value above the last entry of
   disc00 after the other setters were called *)
C4_Witness ==
    /\ last_call.fn = "neighbors"
    /\ last_call.arg > 1093
    /\ parameters.neighbors = 1093
    /\ parameters.tries = 65536
    /\ parameters.magic = 0
    /\ parameters.autism = AutismOne


(* ---- the visitation array (SpecPlan) ---- *)

DataArea == state.data.width * state.data.height

OutputCoords ==
    {Coord(x, y) : x \in 0 .. (state.data.width - 1),
                   y \in 0 .. (state.data.height - 1)}

Occurrences(points, from, to, c) ==
    Cardinality({k \in from .. to : points[k] = c})

ShuffleDone ==
    \/ frame.pc = "shuffle" /\ frame.i >= DataArea
    \/ frame.pc = "loop"

(* C6: once the shuffle has run, whatever was drawn, the first N entries of
   data_points hold every output coordinate exactly once; the whole array
   built by resynth__init holds every output coordinate at least once, and
   with magic = 0 exactly once. *)
C6_ShuffleIsPermutation ==
    /\ ShuffleDone =>
          /\ Len(state.data_points) >= DataArea
          /\ \A c \in OutputCoords :
                Occurrences(state.data_points, 1, DataArea, c) = 1
    /\ frame.pc = "loop" =>
          /\ \A k \in 1 .. Len(state.data_points) :
                state.data_points[k] \in OutputCoords
          /\ \A c \in OutputCoords :
                Occurrences(state.data_points, 1, Len(state.data_points), c) >= 1
          /\ parameters.magic = 0 =>
                \A c \in OutputCoords :
                   Occurrences(state.data_points, 1, Len(state.data_points), c) = 1

(* a finished plan with magic = 0 whose order differs from row-major order
   at three places or more *)
C6_Witness ==
    /\ frame.pc = "loop"
    /\ parameters.magic = 0
    /\ DataArea >= 3
    /\ Len(state.data_points) = DataArea
    /\ Cardinality({k \in 1 .. DataArea :
           state.data_points[k] #
               RowMajor(state.data.width, state.data.height)[k]}) >= 3

(* n_0 = floor(N*m/256), n_(i+1) = floor(n_i*m/256), up to the first n_i <= 0 *)
RECURSIVE SegmentLengths(_, _)
SegmentLengths(n, m) ==
    LET k == (n * m) \div 256
    IN  IF k <= 0 THEN << >> ELSE <<k>> \o SegmentLengths(k, m)

RECURSIVE SumSeq(_)
SumSeq(q) == IF q = << >> THEN 0 ELSE Head(q) + SumSeq(Tail(q))

(* C7: with magic = m > 0 and N output pixels the visitation array has
   length N + n_0 + n_1 + ..., and entry k of the segment of length n_i,
   which starts after the N + n_0 + ... + n_(i-1) entries before it, equals
   data_points[k]. *)
C7_PolishingTail ==
    (frame.pc = "loop" /\ parameters.magic > 0) =>
        LET n == SegmentLengths(DataArea, parameters.magic)
        IN  /\ Len(state.data_points) = DataArea + SumSeq(n)
            /\ \A i \in 1 .. Len(n) :
                  LET start == DataArea + SumSeq(SubSeq(n, 1, i - 1))
                  IN  \A k \in 1 .. n[i] :
                         /\ start + k \in DOMAIN state.data_points
                         /\ state.data_points[start + k] = state.data_points[k]

(* a shuffled plan whose tail has three segments or more *)
C7_Witness ==
    /\ frame.pc = "loop"
    /\ parameters.magic > 0
    /\ Len(SegmentLengths(DataArea, parameters.magic)) >= 3
    /\ state.data_points[1] # Coord(0, 0)
    /\ state.data_points[Len(state.data_points)] = state.data_points[1]


(* ---- the tables of resynth__init (SpecTables) ---- *)

TablesBuilt == frame.pc = "shuffle"

OffsetWidth ==
    IF state.corpus.width < state.data.width
    THEN state.corpus.width ELSE state.data.width

OffsetHeight ==
    IF state.corpus.height < state.data.height
    THEN state.corpus.height ELSE state.data.height

SquaredLength(c) == c.x * c.x + c.y * c.y

(* C8: make_offset_list leaves in sorted_offsets exactly the (2W-1)*(2H-1)
   offsets (dx, dy) with |dx| < W and |dy| < H, each once, W and H being the
   smaller of the corpus and output widths and heights; its first entry is
   (0, 0) and squared lengths never decrease along it. *)
C8_OffsetList ==
    TablesBuilt =>
        LET so == state.sorted_offsets
            n == (2 * OffsetWidth - 1) * (2 * OffsetHeight - 1)
        IN  /\ Len(so) = n
            /\ {so[k] : k \in 1 .. Len(so)} =
                  {Coord(dx, dy) : dx \in (1 - OffsetWidth) .. (OffsetWidth - 1),
                                   dy \in (1 - OffsetHeight) .. (OffsetHeight - 1)}
            /\ \A k, l \in 1 .. Len(so) : so[k] = so[l] => k = l
            /\ so[1] = Coord(0, 0)
            /\ \A k \in 1 .. (Len(so) - 1) :
                  SquaredLength(so[k]) <= SquaredLength(so[k + 1])

(* an offset list of 9 entries or more, the corpus being wider than the
   output and as high, sorted by a qsort that puts equal keys backward *)
C8_Witness ==
    /\ TablesBuilt
    /\ state.corpus.width > state.data.width
    /\ state.corpus.height = state.data.height
    /\ OffsetWidth >= 2
    /\ OffsetHeight >= 2
    /\ qsort_ties = "backward"
    /\ Len(state.sorted_offsets) >= 9
    /\ state.sorted_offsets[Len(state.sorted_offsets)] # Coord(0, 0)

(* C10: for every autism in [0, 1] the table built by resynth__init has
   diff_table[256] = 0, diff_table[256+i] = diff_table[256-i] for i in
   1..255, entries that never decrease as |i| grows (from each index to the
   next one away from 256, on both sides) and are never negative; with
   autism = 0 it is 0 at index 256 and 65536 at every other index. *)
C10_DiffTableShape ==
    TablesBuilt =>
        LET d == state.diff_table
        IN  /\ d[256] = 0
            /\ \A i \in 1 .. 255 : d[256 + i] = d[256 - i]
            /\ \A i \in 0 .. 254 : d[256 + i] <= d[256 + i + 1]
            /\ \A i \in 0 .. 255 : d[256 - i] <= d[256 - i - 1]
            /\ \A i \in -256 .. 255 : d[256 + i] >= 0
            /\ parameters.autism = 0 =>
                  \A idx \in 0 .. 511 : d[idx] = (IF idx = 256 THEN 0 ELSE 65536)

(* ---- the tried grid (Spec) ---- *)

TriedEntries == {state.tried_array[e] : e \in DOMAIN state.tried_array}

LastIndex == Len(state.data_points) - 1

(* between iterations of the loop of resynth, the tried grid being built *)
BetweenIterations ==
    /\ frame.pc = "loop"
    /\ NonEmpty

(* C9 as stated: every tried entry is -1 before the first iteration, and
   after the iteration with index i no entry is below -1 or above i. *)
C9_TriedAtMostIndex ==
    BetweenIterations =>
        /\ frame.i = LastIndex => TriedEntries = {-1}
        /\ frame.i < LastIndex =>
              \A v \in TriedEntries : v >= -1 /\ v <= frame.i + 1

(* C9 amended: every tried entry is -1 before the first iteration; the loop
   variable descends from len-1, and after the iteration with index i every
   entry is -1 or the index of an iteration that has run, that is a value in
   i .. len-1: no entry is below -1 or above len-1. *)
C9_TriedIsSentinelOrRunIndex ==
    BetweenIterations =>
        /\ frame.i = LastIndex => TriedEntries = {-1}
        /\ frame.i < LastIndex =>
              \A v \in TriedEntries :
                 v = -1 \/ (v >= frame.i + 1 /\ v <= LastIndex)

(* an iteration has finished, another is to run, and the grid holds the
   index of an earlier, higher-numbered iteration *)
C9_Witness ==
    /\ BetweenIterations
    /\ frame.i < LastIndex
    /\ frame.i >= 0
    /\ \E v \in TriedEntries : v > frame.i + 1


(* ---- the synthesis loop (Spec) ---- *)

(* With a corpus and an output the only faulting access of an iteration is
   the store of lines 374-381 past the end of the scratch arrays. *)
ScratchStoreOutOfBounds == NonEmpty /\ frame.pc = "fault"

(* C11: in every iteration, for every neighbors value of the setter's domain,
   0 included, n_neighbors <= parameters.neighbors and nothing is stored in
   neighbors, neighbor_values or neighbor_statuses at an index at or past
   their allocated length parameters.neighbors. *)
C11_NeighborsWithinCapacity ==
    NonEmpty =>
        /\ state.n_neighbors <= parameters.neighbors
        /\ state.n_neighbors <= Cardinality(DOMAIN state.neighbors)
        /\ ~ScratchStoreOutOfBounds


(* an iteration has just committed: the loop is at its next index *)
IterationCommitted == BetweenIterations /\ frame.i < LastIndex

(* the position the iteration that has just committed visited *)
CommittedPosition == state.data_points[frame.i + 2]

(* C12: the corpus coordinate an iteration commits is a candidate try_point
   scored in that iteration.  best is INT_MAX from line 386 until try_point
   runs to its end, and lines 266-267 assign best and best_point together,
   so the committed best_point was scored in the iteration exactly when best
   is below INT_MAX at the commit. *)
C12_CommittedWasScored ==
    IterationCommitted =>
        /\ state.status_array[image_atc(state.status, CommittedPosition)].source
              = state.best_point
        /\ state.best < INT_MAX


(* the neighbours of the iteration under way are collected *)
Scoring == NonEmpty /\ frame.pc = "probe"

CorpusCoords ==
    {Coord(x, y) : x \in 0 .. (state.corpus.width - 1),
                   y \in 0 .. (state.corpus.height - 1)}

(* the pairs of a candidate and a collected neighbour whose offset position
   candidate + o_j lies outside the corpus *)
EdgePairs ==
    {c \in CorpusCoords \X (0 .. (state.n_neighbors - 1)) :
        LET q == coord_add(c[1], state.neighbors[c[2]])
        IN  q.x < 0 \/ q.y < 0 \/ q.x >= state.corpus.width
                \/ q.y >= state.corpus.height}

(* C13 as stated: a neighbour whose offset position lies outside the corpus
   contributes diff_table[256] * channels to the sum of try_point. *)
C13_EdgeCostsZeroDelta ==
    Scoring =>
        \A c \in EdgePairs :
            NeighborDiff(state, c[1], c[2]) = state.diff_table[256] * state.input_bytes

(* C13 amended: a neighbour whose offset position lies outside the corpus
   contributes diff_table[0] * channels, the cost of the delta -256 (65536
   per channel, the largest entry of the table), whatever the pixels are. *)
C13_EdgeCostsLargestDelta ==
    Scoring =>
        \A c \in EdgePairs :
            NeighborDiff(state, c[1], c[2]) = state.diff_table[0] * state.input_bytes

(* try_point scored a candidate with one neighbour past the edge of the corpus
   and no other cost: best is the edge cost, 65536 per channel *)
C13_Witness ==
    /\ Scoring
    /\ \E c \in EdgePairs : c[1] = state.best_point
    /\ state.best = 65536 * state.input_bytes
    /\ state.diff_table[256] = 0


(* the position of the iteration under way, or about to start *)
VisitedPosition == state.data_points[frame.i + 1]

VisitedStatus == state.status_array[image_atc(state.status, VisitedPosition)]

(* an iteration with a higher index, run earlier, visited the same position *)
Revisit ==
    \E k \in (frame.i + 2) .. Len(state.data_points) :
        state.data_points[k] = VisitedPosition

(* the collected neighbours at offset (0,0) *)
SelfNeighbours ==
    {k \in 0 .. (state.n_neighbors - 1) : state.neighbors[k] = Coord(0, 0)}

(* C14 as stated: in every iteration, revisits by the polishing tail
   included, the neighbour collected at offset (0,0) has has_source false
   while candidates are scored. *)
C14_SelfNeverHasSource ==
    Scoring =>
        \A k \in SelfNeighbours :
            ~state.status_array[state.neighbor_statuses[k]].has_source

(* C14 amended: while candidates are scored the neighbour collected at offset
   (0,0) is the visited position, and its has_source is false on the first
   visit of the position and true on a revisit by the polishing tail; on a
   revisit the source recorded by the earlier visit is the first candidate
   the coherence phase passes to try_point. *)
C14_SelfHasSourceOnlyOnRevisit ==
    /\ Scoring =>
          \A k \in SelfNeighbours :
             /\ state.neighbor_statuses[k] = image_atc(state.status, VisitedPosition)
             /\ state.status_array[state.neighbor_statuses[k]].has_source = Revisit
    /\ (BetweenIterations /\ frame.i >= 0 /\ parameters.neighbors > 0) =>
          LET h == IterationHead(state, parameters, frame.i)
          IN  /\ VisitedStatus.has_source = Revisit
              /\ Revisit => /\ h.calls # << >>
                            /\ h.calls[1] = VisitedStatus.source

(* candidates are scored for a position the polishing tail visited before,
   and the coherence phase has tried the source that visit recorded *)
C14_Witness ==
    /\ Scoring
    /\ Revisit
    /\ parameters.magic > 0
    /\ SelfNeighbours # {}
    /\ VisitedStatus.has_source
    /\ state.tried_array[image_atc(state.tried, VisitedStatus.source)] = frame.i


(* has_source implies has_value everywhere, and the two are equal everywhere
   between iterations *)
StatusGridConsistent ==
    /\ \A p \in DOMAIN state.status_array :
          state.status_array[p].has_source => state.status_array[p].has_value
    /\ frame.pc = "loop" =>
          \A p \in DOMAIN state.status_array :
             state.status_array[p].has_value = state.status_array[p].has_source

(* inside a run, a step keeps the grid and every has_value that is set *)
HasValueKept ==
    frame.pc # "idle" =>
        /\ DOMAIN state'.status_array = DOMAIN state.status_array
        /\ \A p \in DOMAIN state.status_array :
              state.status_array[p].has_value => state'.status_array[p].has_value

(* C15: over a run, has_value once set is never reset; has_source implies
   has_value in every state; and at every iteration boundary has_value and
   has_source are equal at every output position. *)
C15_StatusGrid == [](StatusGridConsistent) /\ [][HasValueKept]_vars

(* an iteration boundary in the middle of a run with polishing: some
   positions have value and source, others neither *)
C15_Witness ==
    /\ IterationCommitted
    /\ frame.i >= 0
    /\ parameters.magic > 0
    /\ \E p \in DOMAIN state.status_array :
          state.status_array[p].has_value /\ state.status_array[p].has_source
    /\ \E p \in DOMAIN state.status_array :
          ~state.status_array[p].has_value /\ ~state.status_array[p].has_source


(* the sum of the costs of the first n collected neighbours, no early exit *)
RECURSIVE CostOfFirst(_, _, _)
CostOfFirst(s, point, n) ==
    IF n = 0 THEN 0
    ELSE CostOfFirst(s, point, n - 1) + NeighborDiff(s, point, n - 1)

FullCost(s, point) == CostOfFirst(s, point, s.n_neighbors)

(* the first index of candidates whose full cost is the least *)
FirstCheapest(s, candidates) ==
    CHOOSE k \in 1 .. Len(candidates) :
        /\ \A l \in 1 .. Len(candidates) :
              FullCost(s, candidates[k]) <= FullCost(s, candidates[l])
        /\ \A l \in 1 .. (k - 1) :
              FullCost(s, candidates[l]) > FullCost(s, candidates[k])

(* after the coherence phase of the iteration about to start, best and
   best_point are the least full cost among the candidates it scored and the
   first candidate that has it *)
CoherenceChoosesFirstCheapest ==
    (BetweenIterations /\ frame.i >= 0 /\ parameters.neighbors > 0) =>
        LET h == IterationHead(state, parameters, frame.i)
        IN  (h.pc = "probe" /\ h.calls # << >>) =>
               LET k == FirstCheapest(h.s, h.calls)
               IN  /\ h.s.best = FullCost(h.s, h.calls[k])
                   /\ h.s.best_point = h.calls[k]

(* a probe keeps the choice unless the full cost of its candidate is below
   best, and then takes the candidate and its full cost *)
ProbeKeepsFirstCheapest ==
    (Scoring /\ frame'.pc = "probe" /\ frame'.j = frame.j + 1) =>
        LET point == state.corpus_points[frame'.random + 1]
            full == FullCost(state, point)
        IN  IF full < state.best
            THEN state'.best = full /\ state'.best_point = point
            ELSE state'.best = state.best /\ state'.best_point = state.best_point

(* C16: the early exit of try_point does not change the choice: at the end
   of the candidate phase best is the least full cost among the candidates
   scored in the iteration, and best_point the first of them, in scoring
   order, that has it. *)
C16_EarlyExitKeepsChoice ==
    [](CoherenceChoosesFirstCheapest) /\ [][ProbeKeepsFirstCheapest]_vars

(* a probe whose candidate costs more in full than the best of the iteration,
   which more than one neighbour was collected for, left the choice alone *)
C16_Witness ==
    /\ Scoring
    /\ frame.j >= 1
    /\ state.n_neighbors >= 2
    /\ state.best > 0
    /\ state.best_point # state.corpus_points[frame.random + 1]
    /\ FullCost(state, state.corpus_points[frame.random + 1]) > state.best


(* C17: the running sum of try_point stays inside 32 bits for every accepted
   parameter record, any autism in [0, 1] included, so that the branch of
   the failed checked addition is never taken. *)
C17_OverflowAbortUnreachable == frame.pc # "overflow"


(* the corpus coordinates whose tried entry is i *)
TriedAt(s, i) == {c \in CorpusCoords : s.tried_array[image_atc(s.tried, c)] = i}

(* in the iteration about to start, the coherence phase passes no corpus
   coordinate to try_point twice, and the coordinates whose tried entry is
   the iteration's index after it are those it passed *)
CoherenceScoresOnce ==
    (BetweenIterations /\ frame.i >= 0 /\ parameters.neighbors > 0) =>
        LET h == IterationHead(state, parameters, frame.i)
        IN  /\ TriedAt(state, frame.i) = {}
            /\ h.pc = "probe" =>
                  /\ \A a, b \in 1 .. Len(h.calls) : a # b => h.calls[a] # h.calls[b]
                  /\ TriedAt(h.s, frame.i) = {h.calls[a] : a \in 1 .. Len(h.calls)}

(* a random probe passes its point to try_point whatever the tried grid holds
   and leaves the grid as it was *)
ProbeIgnoresTried ==
    (Scoring /\ frame'.pc \in {"probe", "overflow"} /\ pcg' # pcg) =>
        LET point == state.corpus_points[frame'.random + 1]
        IN  /\ state' = try_point(state, point).s
            /\ state'.tried_array = state.tried_array

(* C18: within one iteration the coherence phase calls try_point at most once
   per corpus coordinate, tried[c] is the iteration's index only for the
   coordinates it scored, and the random probes neither read nor change the
   tried grid. *)
C18_TriedGuardsCoherenceOnly ==
    [](CoherenceScoresOnce) /\ [][ProbeIgnoresTried]_vars

(* two collected neighbours proposed one corpus coordinate, the second
   proposal was skipped, and a probe has scored a coordinate the coherence
   phase had scored already *)
C18_Witness ==
    /\ Scoring
    /\ frame.j >= 1
    /\ state.best # 0
    /\ state.tried_array[image_atc(state.tried,
                                   state.corpus_points[frame.random + 1])] = frame.i
    /\ \E a, b \in 0 .. (state.n_neighbors - 1) :
          LET sa == state.status_array[state.neighbor_statuses[a]]
              sb == state.status_array[state.neighbor_statuses[b]]
          IN  /\ a < b
              /\ sa.has_source /\ sb.has_source
              /\ InImage(state.corpus, coord_sub(sa.source, state.neighbors[a]))
              /\ coord_sub(sa.source, state.neighbors[a])
                    = coord_sub(sb.source, state.neighbors[b])


(* n0: the length of the first segment of the polishing tail *)
FirstSegment == (DataArea * parameters.magic) \div 256

(* in the loop of a run with a polishing tail, at an index below n0 or just
   past the last one *)
LastVisits ==
    /\ NonEmpty
    /\ frame.pc \in {"loop", "probe"}
    /\ parameters.magic > 0
    /\ frame.i < FirstSegment

(* an iteration with an index below n0 starts on a filled canvas, and no
   later iteration visits its position *)
LastVisitOnFilledCanvas ==
    (LastVisits /\ frame.pc = "loop" /\ frame.i >= 0) =>
        /\ \A c \in OutputCoords : state.status_array[image_atc(state.status, c)].has_value
        /\ \A k \in 0 .. (frame.i - 1) :
              state.data_points[k + 1] # state.data_points[frame.i + 1]

(* the pixels committed by the iterations with an index below n0 that are
   over are not written again *)
LastVisitIsFinal ==
    (LastVisits /\ frame.i >= -1) =>
        \A k \in (frame.i + 1) .. (FirstSegment - 1) :
            LET at == image_atc(state.data, state.data_points[k + 1])
            IN  state'.data_array[at] = state.data_array[at]

(* C19: with magic > 0 and n0 = floor(N * magic / 256), every iteration with
   an index below n0 starts with has_value set at every output position, and
   what it commits is the final value of its position. *)
C19_PolishOnFilledCanvas ==
    [](LastVisitOnFilledCanvas) /\ [][LastVisitIsFinal]_vars

(* the second of the last visits is about to start: its position holds the
   value its tail visit gave it, one last visit is over *)
C19_Witness ==
    /\ LastVisits
    /\ frame.pc = "loop"
    /\ FirstSegment >= 2
    /\ frame.i = FirstSegment - 2
    /\ Occurrences(state.data_points, DataArea + 1, Len(state.data_points),
                   state.data_points[frame.i + 1]) >= 1


(* C20: no output pixel is collected as a neighbour twice in one iteration:
   the wrapped points of two distinct collected offsets are distinct output
   positions, whatever h_tile and v_tile are. *)
C20_NeighboursDistinct ==
    Scoring =>
        \A a, b \in 0 .. (state.n_neighbors - 1) :
            a # b => state.neighbor_statuses[a] # state.neighbor_statuses[b]


====
